---- MODULE Spec2Model ----
(***************************************************************************)
(* Local-first store, sync queue and sync engine of the habit tracker.     *)
(*                                                                         *)
(* The repository holds two builds of the sync engine                      *)
(* (lib/sync/offline-queue):                                               *)
(*   - the "synced flag" build (src/unnamed/part_016), which marks a       *)
(*     delivered SyncEvent synced = true and keeps it in the table;        *)
(*   - the "retry" build (src/unnamed/part_015), which deletes a delivered *)
(*     QueuedOperation and counts retries up to MAX_RETRIES.               *)
(* The variable engine fixes the build for a behaviour.                    *)
(***************************************************************************)
EXTENDS Integers, Sequences, FiniteSets, TLC

(***************************************************************************)
(* Bounds of the model.                                                    *)
(***************************************************************************)
MaxEvents == 2      \* records ever added to the sync_events table
MaxPasses == 2      \* syncQueue() calls that may be in flight together
MaxDrains == 4      \* syncQueue() calls started in a behaviour
MaxEntities == 2    \* entity ids a caller of queueOperation may name
MaxTasks == 2       \* domain actions that may be in flight together
MaxUuids == 2       \* ids crypto.randomUUID() hands out in a behaviour
MaxDomainEvents == 3  \* records the domain actions add to sync_events
MaxTransient == 1   \* failed remote calls per record before the remote accepts
MaxLogs == 16       \* daily logs in the context of a transition
MaxMinutes == 30    \* minutes of a seed handed to the state machine
MaxStepLevel == 2   \* step_level of a seed handed to the state machine

(***************************************************************************)
(* Program constants.                                                      *)
(***************************************************************************)
MAX_RETRIES == 3

EngineFlag == "synced_flag"     \* src/unnamed/part_016
EngineRetry == "retry_delete"   \* src/unnamed/part_015

\* QueuedOperation['type'] / keyof TYPE_MAP
QueuedOperationTypes == {"LOG_DONE", "LOG_SKIP", "UPDATE_SEED", "CREATE_GOAL"}

\* the types the model passes to queueOperation: the four take the same path
\* through queueOperation and executeOperation
OperationArgs == {"LOG_DONE"}

\* SyncEvent['type']
SyncEventTypes ==
    {"create_goal", "update_goal", "delete_goal",
     "create_seed", "update_seed", "delete_seed",
     "log_done", "log_skip", "update_integration"}

\* TYPE_MAP[type] || 'log_done'
TYPE_MAP(type) ==
    CASE type = "LOG_DONE" -> "log_done"
      [] type = "LOG_SKIP" -> "log_skip"
      [] type = "UPDATE_SEED" -> "update_seed"
      [] type = "CREATE_GOAL" -> "create_goal"
      [] OTHER -> "log_done"

\* The retries field of a record that has none: undefined + 1 is NaN, and
\* NaN + 1 is NaN, and NaN >= MAX_RETRIES is false.
NaN == 0 - 1

EntityIds == 1..MaxEntities

\* the keys the ++id generator of sync_events can hand out in the model
RecordIds == 1..(IF MaxEvents > MaxDomainEvents THEN MaxEvents ELSE MaxDomainEvents)

VARIABLES
    engine,              \* which build of offline-queue is loaded
    online,              \* navigator.onLine
    goals,               \* db.goals
    seeds,               \* db.seeds
    daily_logs,          \* db.daily_logs
    integration_states,  \* db.integration_states
    preferences,         \* db.preferences
    sync_events,         \* db.sync_events, in primary-key order
    nextId,              \* the ++id generator of sync_events
    passes,              \* the syncQueue() calls in flight
    drains,              \* syncQueue() calls started so far
    delivered,           \* remote: successful calls received, per record id
    failures,            \* remote calls failed, per record id
    returned,            \* what the step just taken resolved or rejected with
    tasks,               \* the domain actions in flight
    nextUuid             \* crypto.randomUUID(): the next fresh id

vars == <<engine, online, goals, seeds, daily_logs, integration_states,
          preferences, sync_events, nextId, passes, drains, delivered, failures,
          returned, tasks, nextUuid>>

stores == <<goals, seeds, daily_logs, integration_states, preferences>>

(***************************************************************************)
(* The sync_events table (Dexie): a sequence of records in key order.      *)
(***************************************************************************)
NoEntity == 0   \* a QueuedOperation of the retry build carries no entity id

Ids(table) == {table[k].id : k \in DOMAIN table}

Row(table, id) == CHOOSE r \in {table[k] : k \in DOMAIN table} : r.id = id

\* table.add(record): the new key is larger than every key in the table
TableAdd(table, record) == Append(table, record)

\* an update of every row instead of the row with the key
MarkSyncedAll(table, id) ==
    [k \in DOMAIN table |-> [table[k] EXCEPT !.synced = TRUE]]

\* an update that sets the flag of the row and resets it on every other row
MarkSyncedResetsOthers(table, id) ==
    [k \in DOMAIN table |-> [table[k] EXCEPT !.synced = (table[k].id = id)]]

\* an update that flips the flag instead of setting it
MarkSyncedToggles(table, id) ==
    [k \in DOMAIN table |->
        IF table[k].id = id
        THEN [table[k] EXCEPT !.synced = ~table[k].synced]
        ELSE table[k]]

\* table.update(id, {synced: true}): no row with that key is no error, and a
\* row that already has the value is left as it is
MarkSynced(table, id) ==
    [k \in DOMAIN table |->
        IF table[k].id = id THEN [table[k] EXCEPT !.synced = TRUE] ELSE table[k]]

\* table.delete(id): no row with that key is no error
TableDelete(table, id) == SelectSeq(table, LAMBDA r : r.id # id)

\* table.put(record): replaces the row with the record's key, or inserts it
TablePut(table, record) ==
    SelectSeq(table, LAMBDA r : r.id < record.id)
        \o <<record>>
        \o SelectSeq(table, LAMBDA r : r.id > record.id)

(***************************************************************************)
(* syncQueue(): one call is a pass.                                        *)
(***************************************************************************)
\* what the step just taken resolved or rejected with, if anything
NoResult == [kind |-> "none"]

Summary(synced, failed, pending) ==
    [kind |-> "summary", synced |-> synced, failed |-> failed, pending |-> pending]

Rejected(message) == [kind |-> "error", message |-> message]

Cleared(by) == [kind |-> "cleared", by |-> by]

\* attempted: the ids of the records this call has run executeOperation for;
\* wiped: a reset has committed since this call took its snapshot
IdlePass ==
    [pc |-> "idle", operations |-> <<>>, i |-> 0, synced |-> 0, failed |-> 0,
     attempted |-> {}, wiped |-> FALSE]

Slots == 1..MaxPasses

\* the comparison off by one
DropsAtOffByOne(retries) == retries # NaN /\ retries >= MAX_RETRIES - 1

\* if (updatedOp.retries >= MAX_RETRIES): NaN >= 3 is false
DropsAt(retries) == retries # NaN /\ retries >= MAX_RETRIES

\* retries + 1 as JavaScript computes it
IncRetries(r) == IF r = NaN THEN NaN ELSE r + 1

\* `if (event.synced) continue;` is in the synced-flag build only
SkipsSynced(e) == e = EngineFlag

\* the first index >= from that the loop body does not skip
RECURSIVE NextIndex(_, _, _)
NextIndex(e, operations, from) ==
    IF from > Len(operations) THEN from
    ELSE IF SkipsSynced(e) /\ operations[from].synced
         THEN NextIndex(e, operations, from + 1)
         ELSE from

\* the cases of executeOperation's switch; any other type throws
Executable(e) ==
    IF e = EngineFlag
    THEN {"log_done", "log_skip", "update_seed", "create_goal"}
    ELSE {"LOG_DONE", "LOG_SKIP", "UPDATE_SEED", "CREATE_GOAL"}

\* the loop with a `break` in its catch block
AdvanceBreaksOnFailure(e, pass, to) ==
    LET j == IF pass.failed > 0
             THEN Len(pass.operations) + 1
             ELSE NextIndex(e, pass.operations, to)
    IN  [pass EXCEPT !.i = j,
                     !.pc = IF j > Len(pass.operations) THEN "count" ELSE "call"]

\* the loop moves on to index `to`, or leaves the loop
Advance(e, pass, to) ==
    LET j == NextIndex(e, pass.operations, to)
    IN  [pass EXCEPT !.i = j,
                     !.pc = IF j > Len(pass.operations) THEN "count" ELSE "call"]

\* const operations = await db.syncQueue.toArray(); ... the empty case returns
SyncQueueStart(e, table) ==
    IF Len(table) = 0
    THEN IdlePass
    ELSE Advance(e, [IdlePass EXCEPT !.operations = table], 1)

\* if (operations.length === 0) return { synced: 0, failed: 0, pending: 0 };
EmptyResult(table) ==
    IF Len(table) = 0 THEN Summary(0, 0, 0) ELSE NoResult

(***************************************************************************)
(* Micro-step proposals and the minutes of the first seed (microsteps.ts). *)
(* A title is the sequence of its characters.                              *)
(***************************************************************************)
EnergyBudgets == {"tiny", "small", "medium", "big"}

Feelings == 1..5

\* `Do the tiniest version for 1 minute`
TitleMinute ==
    <<"D", "o", " ", "t", "h", "e", " ", "t", "i", "n", "i", "e", "s", "t",
      " ", "v", "e", "r", "s", "i", "o", "n", " ", "f", "o", "r", " ", "1",
      " ", "m", "i", "n", "u", "t", "e">>

\* `Show up and do the first step only`
TitleFirstStep ==
    <<"S", "h", "o", "w", " ", "u", "p", " ", "a", "n", "d", " ", "d", "o",
      " ", "t", "h", "e", " ", "f", "i", "r", "s", "t", " ", "s", "t", "e",
      "p", " ", "o", "n", "l", "y">>

\* `Set a 2-minute timer and start`
TitleTimer2 ==
    <<"S", "e", "t", " ", "a", " ", "2", "-", "m", "i", "n", "u", "t", "e",
      " ", "t", "i", "m", "e", "r", " ", "a", "n", "d", " ", "s", "t", "a",
      "r", "t">>

\* 'Set a 3-minute timer and start'
TitleTimer3 ==
    <<"S", "e", "t", " ", "a", " ", "3", "-", "m", "i", "n", "u", "t", "e",
      " ", "t", "i", "m", "e", "r", " ", "a", "n", "d", " ", "s", "t", "a",
      "r", "t">>

\* proposeMicroSteps({ energy, feeling, horizon }): the three options; the
\* third is nudged to 3 minutes for medium/big energy and feeling >= 4
proposeMicroSteps(energy, feeling) ==
    <<[id |-> "minute", title |-> TitleMinute],
      [id |-> "first-step", title |-> TitleFirstStep],
      IF energy \in {"medium", "big"} /\ feeling >= 4
      THEN [id |-> "timer-3", title |-> TitleTimer3]
      ELSE [id |-> "timer-2", title |-> TitleTimer2]>>

DigitChars == <<"0", "1", "2", "3", "4", "5", "6", "7", "8", "9">>

IsDigit(c) == \E d \in DOMAIN DigitChars : DigitChars[d] = c

DigitValue(c) == (CHOOSE d \in DOMAIN DigitChars : DigitChars[d] = c) - 1

UpperChars ==
    <<"A", "B", "C", "D", "E", "F", "G", "H", "I", "J", "K", "L", "M",
      "N", "O", "P", "Q", "R", "S", "T", "U", "V", "W", "X", "Y", "Z">>

LowerChars ==
    <<"a", "b", "c", "d", "e", "f", "g", "h", "i", "j", "k", "l", "m",
      "n", "o", "p", "q", "r", "s", "t", "u", "v", "w", "x", "y", "z">>

\* the /i flag: a character compares as its lower-case form
ToLower(c) ==
    IF \E u \in DOMAIN UpperChars : UpperChars[u] = c
    THEN LowerChars[CHOOSE u \in DOMAIN UpperChars : UpperChars[u] = c]
    ELSE c

\* [\s-]: the white space of a title is the blank
IsSeparator(c) == c \in {" ", "-"}

MinuteChars == <<"m", "i", "n", "u", "t", "e">>

\* the end of the run of digits that starts at k
RECURSIVE DigitsEnd(_, _)
DigitsEnd(title, k) ==
    IF k < Len(title) /\ IsDigit(title[k + 1])
    THEN DigitsEnd(title, k + 1)
    ELSE k

\* /(\d+)[\s-]minute/i matches at k
MatchesAt(title, k) ==
    /\ IsDigit(title[k])
    /\ LET e == DigitsEnd(title, k)
       IN  /\ e + 1 + Len(MinuteChars) <= Len(title)
           /\ IsSeparator(title[e + 1])
           /\ \A j \in DOMAIN MinuteChars :
                  ToLower(title[e + 1 + j]) = MinuteChars[j]

\* parseInt(digits, 10) of title[from..to]
RECURSIVE ParseInt(_, _, _)
ParseInt(title, from, to) ==
    IF from > to THEN 0
    ELSE 10 * ParseInt(title, from, to - 1) + DigitValue(title[to])

\* parseMinutesFromTitle(title): the first match's number, or 2
parseMinutesFromTitle(title) ==
    LET matches == {k \in DOMAIN title : MatchesAt(title, k)}
    IN  IF matches = {} THEN 2
        ELSE LET k == CHOOSE m \in matches : \A n \in matches : m <= n
             IN  ParseInt(title, k, DigitsEnd(title, k))

\* the seedDescription of the onboarding calls that do not go through a proposal
DefaultDescriptions == {TitleFirstStep}

Options(energy, feeling) ==
    [kind |-> "options", energy |-> energy, feeling |-> feeling,
     options |-> proposeMicroSteps(energy, feeling)]

(***************************************************************************)
(* Domain actions (daily-log.actions.ts, microsteps.ts): one call is a     *)
(* task; every await is a step boundary.                                   *)
(***************************************************************************)
TaskSlots == 1..MaxTasks

IdleTask ==
    [pc |-> "idle", seed |-> 0, id |-> 0, status |-> "none", minutes |-> 0]

\* a seed id held by the page that is not an id of this behaviour's seeds
StaleSeed == 0

\* the states updateIntegrationStatus is called with from the integration check
StatusArgs == {"almost", "yes"}

\* queueSyncEvent(event): created_at, synced: false; no retries field
NewSyncEvent(id, type, entity) ==
    [id |-> id, type |-> type, entity_id |-> entity, synced |-> FALSE,
     retries |-> NaN]

\* db.integration_states.get(seedId)?.status
StatusOf(states, seed) ==
    IF \E s \in states : s.seed_id = seed
    THEN (CHOOSE s \in states : s.seed_id = seed).status
    ELSE "none"

\* db.integration_states.put(state): seed_id is the key
PutState(states, state) ==
    {s \in states : s.seed_id # state.seed_id} \cup {state}

\* a new call takes the lowest slot that is free (the slots are interchangeable)
FreeSlot(p) ==
    /\ passes[p].pc = "idle"
    /\ \A q \in Slots : q < p => passes[q].pc # "idle"
    /\ drains < MaxDrains

FreeTask(t) ==
    /\ tasks[t].pc = "idle"
    /\ \A u \in TaskSlots : u < t => tasks[u].pc # "idle"

Current(p) == passes[p].operations[passes[p].i]

Init ==
    /\ engine \in {EngineFlag, EngineRetry}
    /\ online = TRUE
    /\ goals = {}
    /\ seeds = {}
    /\ daily_logs = {}
    /\ integration_states = {}
    /\ preferences = {}
    /\ sync_events = <<>>
    /\ nextId = 1
    /\ passes = [p \in Slots |-> IdlePass]
    /\ drains = 0
    /\ delivered = [id \in RecordIds |-> 0]
    /\ failures = [id \in RecordIds |-> 0]
    /\ returned = NoResult
    /\ tasks = [t \in TaskSlots |-> IdleTask]
    /\ nextUuid = 1

\* a caller starts syncQueue() in slot p
StartPass(p) ==
    /\ FreeSlot(p)
    /\ passes' = [passes EXCEPT ![p] = SyncQueueStart(engine, sync_events)]
    /\ returned' = EmptyResult(sync_events)
    /\ drains' = drains + 1

\* queueOperation(type, payload, entityId)
QueueOperation(type, entity) ==
    /\ nextId <= MaxEvents
    /\ sync_events' = TableAdd(sync_events,
         IF engine = EngineFlag
         THEN [id |-> nextId, type |-> TYPE_MAP(type), entity_id |-> entity,
               synced |-> FALSE, retries |-> NaN]
         ELSE [id |-> nextId, type |-> type, entity_id |-> NoEntity,
               synced |-> FALSE, retries |-> 0])
    /\ nextId' = nextId + 1
    /\ IF online
       THEN \E p \in Slots :
              /\ FreeSlot(p)
              /\ passes' = [passes EXCEPT
                              ![p] = SyncQueueStart(engine, sync_events')]
              /\ drains' = drains + 1
       ELSE UNCHANGED <<passes, drains>>
    /\ returned' = NoResult
    /\ UNCHANGED <<engine, online, stores, tasks, nextUuid, delivered, failures>>

\* window 'online' event: the listener of setupSyncListeners calls syncQueue()
GoOnline ==
    /\ ~online
    /\ online' = TRUE
    /\ \E p \in Slots : StartPass(p)
    /\ UNCHANGED <<engine, stores, tasks, nextUuid, sync_events, nextId, delivered, failures>>

\* window 'offline' event: the listener only logs
GoOffline ==
    /\ online
    /\ online' = FALSE
    /\ returned' = NoResult
    /\ UNCHANGED <<engine, stores, tasks, nextUuid, sync_events, nextId, passes, drains,
                   delivered, failures>>

\* the callback without its navigator.onLine test
PeriodicSyncIgnoresOnline ==
    /\ \E p \in Slots : StartPass(p)
    /\ UNCHANGED <<engine, online, stores, tasks, nextUuid, sync_events, nextId, delivered, failures>>

\* the setInterval callback of setupSyncListeners:
\* if (navigator.onLine) syncQueue()
PeriodicSync ==
    /\ IF online
       THEN \E p \in Slots : StartPass(p)
       ELSE returned' = NoResult /\ UNCHANGED <<passes, drains>>
    /\ UNCHANGED <<engine, online, stores, tasks, nextUuid, sync_events, nextId, delivered, failures>>

\* useSyncStatus().sync: the caller runs syncQueue() directly
ManualSync ==
    /\ \E p \in Slots : StartPass(p)
    /\ UNCHANGED <<engine, online, stores, tasks, nextUuid, sync_events, nextId, delivered, failures>>

\* await executeOperation(event) resolves: the remote call was received
CallSucceeds(p) ==
    /\ passes[p].pc = "call"
    /\ online
    /\ Current(p).type \in Executable(engine)
    /\ delivered' = [delivered EXCEPT ![Current(p).id] = @ + 1]
    /\ passes' = [passes EXCEPT
                    ![p].pc = IF engine = EngineFlag THEN "mark" ELSE "delete",
                    ![p].attempted = @ \cup {Current(p).id}]
    /\ returned' = NoResult
    /\ UNCHANGED <<engine, online, stores, tasks, nextUuid, sync_events, nextId, drains, failures>>

\* a catch block that rethrows: the call is over
CaughtRethrows(e, pass) == IdlePass

\* the pass enters its catch block: the synced-flag build counts the failure and
\* goes on with the loop, the retry build has its retry bookkeeping to do
Caught(e, pass) ==
    LET tried == [pass EXCEPT
                    !.attempted = @ \cup {pass.operations[pass.i].id}]
    IN  IF e = EngineFlag
        THEN Advance(e, [tried EXCEPT !.failed = @ + 1], tried.i + 1)
        ELSE [tried EXCEPT !.pc = "retry"]

\* await executeOperation(event) rejects: unknown type, transport error (the
\* only outcome while offline), or a response that is not ok
CallFails(p) ==
    /\ passes[p].pc = "call"
    /\ failures' = [failures EXCEPT ![Current(p).id] = @ + 1]
    /\ passes' = [passes EXCEPT ![p] = Caught(engine, passes[p])]
    /\ returned' = NoResult
    /\ UNCHANGED <<engine, online, stores, tasks, nextUuid, sync_events, nextId, drains, delivered>>

\* a step that also marks the entity of the record as synced in its store
MarkStepSyncsEntity(p) ==
    /\ passes[p].pc = "mark"
    /\ sync_events' = MarkSynced(sync_events, Current(p).id)
    /\ daily_logs' = {IF l.id = Current(p).entity_id
                      THEN [l EXCEPT !.sync_status = "synced"] ELSE l :
                      l \in daily_logs}
    /\ passes' = [passes EXCEPT ![p] =
                    Advance(engine, [passes[p] EXCEPT !.synced = @ + 1],
                            passes[p].i + 1)]
    /\ returned' = NoResult
    /\ UNCHANGED <<engine, online, goals, seeds, integration_states, preferences,
                   tasks, nextUuid, nextId, drains, delivered, failures>>

\* await db.syncQueue.update(event.id!, { synced: true }); synced++
MarkStep(p) ==
    /\ passes[p].pc = "mark"
    /\ sync_events' = MarkSynced(sync_events, Current(p).id)
    /\ passes' = [passes EXCEPT ![p] =
                    Advance(engine, [passes[p] EXCEPT !.synced = @ + 1],
                            passes[p].i + 1)]
    /\ returned' = NoResult
    /\ UNCHANGED <<engine, online, stores, tasks, nextUuid, nextId, drains, delivered, failures>>

\* await db.syncQueue.delete(operation.id); synced++
DeleteStep(p) ==
    /\ passes[p].pc = "delete"
    /\ sync_events' = TableDelete(sync_events, Current(p).id)
    /\ passes' = [passes EXCEPT ![p] =
                    Advance(engine, [passes[p] EXCEPT !.synced = @ + 1],
                            passes[p].i + 1)]
    /\ returned' = NoResult
    /\ UNCHANGED <<engine, online, stores, tasks, nextUuid, nextId, drains, delivered, failures>>

\* the catch block of the retry build
RetryStep(p) ==
    /\ passes[p].pc = "retry"
    /\ LET updatedOp == [Current(p) EXCEPT !.retries = IncRetries(@)]
           dropped == DropsAt(updatedOp.retries)
       IN  /\ sync_events' = IF dropped
                             THEN TableDelete(sync_events, updatedOp.id)
                             ELSE TablePut(sync_events, updatedOp)
           /\ passes' = [passes EXCEPT ![p] =
                Advance(engine,
                        [passes[p] EXCEPT !.failed = IF dropped THEN @ + 1 ELSE @],
                        passes[p].i + 1)]
    /\ returned' = NoResult
    /\ UNCHANGED <<engine, online, stores, tasks, nextUuid, nextId, drains, delivered, failures>>

\* const remaining = await db.syncQueue.count(); return {synced, failed, pending}
CountStep(p) ==
    /\ passes[p].pc = "count"
    /\ passes' = [passes EXCEPT ![p] = IdlePass]
    /\ returned' = Summary(passes[p].synced, passes[p].failed, Len(sync_events))
    /\ UNCHANGED <<engine, online, stores, tasks, nextUuid, sync_events, nextId, drains,
                   delivered, failures>>

SyncState == <<engine, online, passes, drains, delivered, failures>>

FreshUuids(n) == nextUuid + n - 1 <= MaxUuids

CanQueue == nextId <= MaxDomainEvents

\* await queueSyncEvent({type, entity_id, payload})
QueueSyncEvent(type, entity) ==
    /\ sync_events' = TableAdd(sync_events, NewSyncEvent(nextId, type, entity))
    /\ nextId' = nextId + 1

\* the seed ids logDone, logSkip and updateIntegrationStatus are called with
SeedArgs == {s.id : s \in seeds} \cup {StaleSeed}

\* the call without its test for an existing log
LogCheckWithoutTest(t, seed, next) ==
    /\ FreeTask(t)
    /\ FreshUuids(1)
    /\ tasks' = [tasks EXCEPT ![t] =
                   [IdleTask EXCEPT !.pc = next, !.seed = seed, !.id = nextUuid]]
    /\ nextUuid' = nextUuid + 1
    /\ returned' = NoResult
    /\ UNCHANGED <<SyncState, stores, sync_events, nextId>>

\* logDone / logSkip: const existingLog = ...first(); if (existingLog) throw
LogCheck(t, seed, next) ==
    /\ FreeTask(t)
    /\ IF \E l \in daily_logs : l.seed_id = seed
       THEN /\ returned' = Rejected("Already logged for today")
            /\ UNCHANGED <<tasks, nextUuid>>
       ELSE /\ FreshUuids(1)
            /\ tasks' = [tasks EXCEPT ![t] =
                           [IdleTask EXCEPT !.pc = next, !.seed = seed,
                                            !.id = nextUuid]]
            /\ nextUuid' = nextUuid + 1
            /\ returned' = NoResult
    /\ UNCHANGED <<SyncState, stores, sync_events, nextId>>

LogDoneCheck(t, seed) == LogCheck(t, seed, "logDone:get")

\* let integrationState = await db.integration_states.get(seedId)
LogDoneGet(t) ==
    /\ tasks[t].pc = "logDone:get"
    /\ tasks' = [tasks EXCEPT
                   ![t].pc = "logDone:tx",
                   ![t].status =
                       IF StatusOf(integration_states, tasks[t].seed) = "none"
                       THEN "not_yet"
                       ELSE StatusOf(integration_states, tasks[t].seed)]
    /\ returned' = NoResult
    /\ UNCHANGED <<SyncState, stores, sync_events, nextId, nextUuid>>

\* await db.transaction('rw', [db.daily_logs, db.integration_states], ...)
LogDoneTx(t) ==
    /\ tasks[t].pc = "logDone:tx"
    /\ daily_logs' = daily_logs \cup
         {[id |-> tasks[t].id, seed_id |-> tasks[t].seed, outcome |-> "done",
           sync_status |-> "pending"]}
    /\ integration_states' = PutState(integration_states,
         [seed_id |-> tasks[t].seed, status |-> tasks[t].status,
          sync_status |-> "pending"])
    /\ tasks' = [tasks EXCEPT ![t].pc = "logDone:queue_log"]
    /\ returned' = NoResult
    /\ UNCHANGED <<SyncState, goals, seeds, preferences, sync_events, nextId,
                   nextUuid>>

\* await queueSyncEvent({ type: 'log_done', entity_id: logId, ... })
LogDoneQueueLog(t) ==
    /\ tasks[t].pc = "logDone:queue_log"
    /\ CanQueue
    /\ QueueSyncEvent("log_done", tasks[t].id)
    /\ tasks' = [tasks EXCEPT ![t].pc = "logDone:queue_integration"]
    /\ returned' = NoResult
    /\ UNCHANGED <<SyncState, stores, nextUuid>>

\* await queueSyncEvent({ type: 'update_integration', entity_id: seedId, ... })
LogDoneQueueIntegration(t) ==
    /\ tasks[t].pc = "logDone:queue_integration"
    /\ CanQueue
    /\ QueueSyncEvent("update_integration", tasks[t].seed)
    /\ tasks' = [tasks EXCEPT ![t] = IdleTask]
    /\ returned' = NoResult
    /\ UNCHANGED <<SyncState, stores, nextUuid>>

LogSkipCheck(t, seed) == LogCheck(t, seed, "logSkip:add")

\* await db.daily_logs.add(dailyLog)
LogSkipAdd(t) ==
    /\ tasks[t].pc = "logSkip:add"
    /\ daily_logs' = daily_logs \cup
         {[id |-> tasks[t].id, seed_id |-> tasks[t].seed, outcome |-> "skipped",
           sync_status |-> "pending"]}
    /\ tasks' = [tasks EXCEPT ![t].pc = "logSkip:queue"]
    /\ returned' = NoResult
    /\ UNCHANGED <<SyncState, goals, seeds, integration_states, preferences,
                   sync_events, nextId, nextUuid>>

\* await queueSyncEvent({ type: 'log_skip', entity_id: logId, ... })
LogSkipQueue(t) ==
    /\ tasks[t].pc = "logSkip:queue"
    /\ CanQueue
    /\ QueueSyncEvent("log_skip", tasks[t].id)
    /\ tasks' = [tasks EXCEPT ![t] = IdleTask]
    /\ returned' = NoResult
    /\ UNCHANGED <<SyncState, stores, nextUuid>>

\* updateIntegrationStatus: get; if (!integrationState) throw
UpdateIntegrationGet(t, seed, status) ==
    /\ FreeTask(t)
    /\ IF StatusOf(integration_states, seed) = "none"
       THEN /\ returned' = Rejected("Integration state not found")
            /\ UNCHANGED tasks
       ELSE /\ tasks' = [tasks EXCEPT ![t] =
                           [IdleTask EXCEPT !.pc = "updateIntegration:put",
                                            !.seed = seed, !.status = status]]
            /\ returned' = NoResult
    /\ UNCHANGED <<SyncState, stores, sync_events, nextId, nextUuid>>

\* await db.integration_states.put(updated)
UpdateIntegrationPut(t) ==
    /\ tasks[t].pc = "updateIntegration:put"
    /\ integration_states' = PutState(integration_states,
         [seed_id |-> tasks[t].seed, status |-> tasks[t].status,
          sync_status |-> "pending"])
    /\ tasks' = [tasks EXCEPT ![t].pc = "updateIntegration:queue"]
    /\ returned' = NoResult
    /\ UNCHANGED <<SyncState, goals, seeds, daily_logs, preferences, sync_events,
                   nextId, nextUuid>>

\* await queueSyncEvent({ type: 'update_integration', entity_id: seedId, ... })
UpdateIntegrationQueue(t) ==
    /\ tasks[t].pc = "updateIntegration:queue"
    /\ CanQueue
    /\ QueueSyncEvent("update_integration", tasks[t].seed)
    /\ tasks' = [tasks EXCEPT ![t] = IdleTask]
    /\ returned' = NoResult
    /\ UNCHANGED <<SyncState, stores, nextUuid>>

\* completeOnboarding({seedDescription, ...}) without seedMinutes: the minutes
\* are parsed from the description, goalId and seedId are generated, the
\* records are built
CompleteOnboardingBegin(t, seedDescription) ==
    /\ FreeTask(t)
    /\ FreshUuids(2)
    /\ tasks' = [tasks EXCEPT ![t] =
                   [IdleTask EXCEPT !.pc = "completeOnboarding:tx",
                                    !.id = nextUuid, !.seed = nextUuid + 1,
                                    !.status = "not_yet",
                                    !.minutes =
                                        parseMinutesFromTitle(seedDescription)]]
    /\ nextUuid' = nextUuid + 2
    /\ returned' = NoResult
    /\ UNCHANGED <<SyncState, stores, sync_events, nextId>>

\* await db.transaction('rw', [db.goals, db.seeds, db.integration_states], ...)
CompleteOnboardingTx(t) ==
    /\ tasks[t].pc = "completeOnboarding:tx"
    /\ goals' = goals \cup {[id |-> tasks[t].id, sync_status |-> "pending"]}
    /\ seeds' = seeds \cup {[id |-> tasks[t].seed, goal_id |-> tasks[t].id,
                             minutes |-> tasks[t].minutes,
                             sync_status |-> "pending"]}
    /\ integration_states' = integration_states \cup
         {[seed_id |-> tasks[t].seed, status |-> "not_yet",
           sync_status |-> "pending"]}
    /\ tasks' = [tasks EXCEPT ![t].pc = "completeOnboarding:queue_goal"]
    /\ returned' = NoResult
    /\ UNCHANGED <<SyncState, daily_logs, preferences, sync_events, nextId,
                   nextUuid>>

\* await queueSyncEvent({ type: 'create_goal', entity_id: goalId, ... })
CompleteOnboardingQueueGoal(t) ==
    /\ tasks[t].pc = "completeOnboarding:queue_goal"
    /\ CanQueue
    /\ QueueSyncEvent("create_goal", tasks[t].id)
    /\ tasks' = [tasks EXCEPT ![t].pc = "completeOnboarding:queue_seed"]
    /\ returned' = NoResult
    /\ UNCHANGED <<SyncState, stores, nextUuid>>

\* await queueSyncEvent({ type: 'create_seed', entity_id: seedId, ... })
CompleteOnboardingQueueSeed(t) ==
    /\ tasks[t].pc = "completeOnboarding:queue_seed"
    /\ CanQueue
    /\ QueueSyncEvent("create_seed", tasks[t].seed)
    /\ tasks' = [tasks EXCEPT ![t].pc = "completeOnboarding:queue_integration"]
    /\ returned' = NoResult
    /\ UNCHANGED <<SyncState, stores, nextUuid>>

\* await queueSyncEvent({ type: 'update_integration', entity_id: seedId, ... })
CompleteOnboardingQueueIntegration(t) ==
    /\ tasks[t].pc = "completeOnboarding:queue_integration"
    /\ CanQueue
    /\ QueueSyncEvent("update_integration", tasks[t].seed)
    /\ tasks' = [tasks EXCEPT ![t] = IdleTask]
    /\ returned' = NoResult
    /\ UNCHANGED <<SyncState, stores, nextUuid>>

\* a write of a domain action rejects (quota, storage error): the action throws
\* at that await; a transaction that rejects has written nothing
WritePcs ==
    {"logDone:tx", "logDone:queue_log", "logDone:queue_integration",
     "logSkip:add", "logSkip:queue",
     "updateIntegration:put", "updateIntegration:queue",
     "completeOnboarding:tx", "completeOnboarding:queue_goal",
     "completeOnboarding:queue_seed", "completeOnboarding:queue_integration"}

StorageFailure(t) ==
    /\ tasks[t].pc \in WritePcs
    /\ tasks' = [tasks EXCEPT ![t] = IdleTask]
    /\ returned' = Rejected("StorageFailure")
    /\ UNCHANGED <<SyncState, stores, sync_events, nextId, nextUuid>>

\* the syncQueue() calls in flight when a reset commits keep their snapshot
Wiped(ps) ==
    [p \in Slots |->
        IF ps[p].pc # "idle" THEN [ps[p] EXCEPT !.wiped = TRUE] ELSE ps[p]]

EmptyStores ==
    /\ goals = {}
    /\ seeds = {}
    /\ daily_logs = {}
    /\ integration_states = {}
    /\ preferences = {}
    /\ sync_events = <<>>

\* clearAllLocalData(): one 'rw' transaction over five tables; it commits the
\* five clears together or, when it rejects, none of them
ClearAllLocalData(commits) ==
    /\ ~EmptyStores
    /\ IF commits
       THEN /\ goals' = {}
            /\ seeds' = {}
            /\ daily_logs' = {}
            /\ integration_states' = {}
            /\ sync_events' = <<>>
            /\ passes' = Wiped(passes)
            /\ returned' = Cleared("clearAllLocalData")
       ELSE /\ UNCHANGED <<goals, seeds, daily_logs, integration_states,
                           sync_events, passes>>
            /\ returned' = Rejected("clearAllLocalData")
    /\ UNCHANGED <<engine, online, drains, delivered, failures, preferences,
                   nextId, tasks, nextUuid>>

\* ClearDataDialog.handleClearData: one 'rw' transaction over four tables
HandleClearData(commits) ==
    /\ ~EmptyStores
    /\ IF commits
       THEN /\ goals' = {}
            /\ seeds' = {}
            /\ daily_logs' = {}
            /\ sync_events' = <<>>
            /\ passes' = Wiped(passes)
            /\ returned' = Cleared("ClearDataDialog")
       ELSE /\ UNCHANGED <<goals, seeds, daily_logs, sync_events, passes>>
            /\ returned' = Rejected("Failed to clear data")
    /\ UNCHANGED <<engine, online, drains, delivered, failures,
                   integration_states, preferences, nextId, tasks, nextUuid>>

\* page unload or process restart: every call in flight is gone, IndexedDB and
\* the remote keep what they have
Crash ==
    /\ \/ \E p \in Slots : passes[p].pc # "idle"
       \/ \E t \in TaskSlots : tasks[t].pc # "idle"
    /\ passes' = [p \in Slots |-> IdlePass]
    /\ tasks' = [t \in TaskSlots |-> IdleTask]
    /\ returned' = NoResult
    /\ UNCHANGED <<engine, online, stores, sync_events, nextId, drains,
                   delivered, failures, nextUuid>>

SyncNext ==
    \/ \E type \in OperationArgs, entity \in EntityIds :
         QueueOperation(type, entity)
    \/ GoOnline
    \/ GoOffline
    \/ PeriodicSync
    \/ ManualSync
    \/ \E p \in Slots : CallSucceeds(p)
    \/ \E p \in Slots : CallFails(p)
    \/ \E p \in Slots : MarkStep(p)
    \/ \E p \in Slots : DeleteStep(p)
    \/ \E p \in Slots : RetryStep(p)
    \/ \E p \in Slots : CountStep(p)
    \/ Crash

DomainNext ==
    \/ \E t \in TaskSlots, seed \in SeedArgs : LogDoneCheck(t, seed)
    \/ \E t \in TaskSlots : LogDoneGet(t)
    \/ \E t \in TaskSlots : LogDoneTx(t)
    \/ \E t \in TaskSlots : LogDoneQueueLog(t)
    \/ \E t \in TaskSlots : LogDoneQueueIntegration(t)
    \/ \E t \in TaskSlots, seed \in SeedArgs : LogSkipCheck(t, seed)
    \/ \E t \in TaskSlots : LogSkipAdd(t)
    \/ \E t \in TaskSlots : LogSkipQueue(t)
    \/ \E t \in TaskSlots, seed \in SeedArgs, status \in StatusArgs :
         UpdateIntegrationGet(t, seed, status)
    \/ \E t \in TaskSlots : UpdateIntegrationPut(t)
    \/ \E t \in TaskSlots : UpdateIntegrationQueue(t)
    \/ \E t \in TaskSlots, seedDescription \in DefaultDescriptions :
         CompleteOnboardingBegin(t, seedDescription)
    \/ \E t \in TaskSlots : CompleteOnboardingTx(t)
    \/ \E t \in TaskSlots : CompleteOnboardingQueueGoal(t)
    \/ \E t \in TaskSlots : CompleteOnboardingQueueSeed(t)
    \/ \E t \in TaskSlots : CompleteOnboardingQueueIntegration(t)
    \/ \E t \in TaskSlots : StorageFailure(t)
    \/ \E commits \in BOOLEAN : ClearAllLocalData(commits)
    \/ \E commits \in BOOLEAN : HandleClearData(commits)
    \/ Crash

Next == SyncNext \/ DomainNext

Spec == Init /\ [][Next]_vars

(***************************************************************************)
(* Offline use followed by reconnection: logDone queues its events while   *)
(* the device is offline, the listeners of setupSyncListeners drain the    *)
(* queue, in the synced-flag build (the build whose records are the        *)
(* SyncEvents of the domain actions). syncQueue() calls are not counted    *)
(* here.                                                                   *)
(***************************************************************************)
FlagInit == Init /\ engine = EngineFlag

\* the 'online' listener or the setInterval callback calls syncQueue()
Trigger(p) ==
    /\ FreeSlot(p)
    /\ passes' = [passes EXCEPT ![p] = SyncQueueStart(engine, sync_events)]
    /\ returned' = EmptyResult(sync_events)
    /\ UNCHANGED <<engine, stores, tasks, nextUuid, sync_events, nextId, drains,
                   delivered, failures>>

OnlineEvent == ~online /\ online' = TRUE /\ \E p \in Slots : Trigger(p)

PeriodicTick == online /\ UNCHANGED online /\ \E p \in Slots : Trigger(p)

\* the remote call fails (transport error, response not ok): the remote
\* accepts a call after at most MaxTransient failures
TransientFailure(p) ==
    /\ passes[p].pc = "call"
    /\ Current(p).type \in Executable(engine)
    /\ failures[Current(p).id] < MaxTransient
    /\ CallFails(p)

\* default: throw new Error(`Unknown event type: ${event.type}`), no remote call
ThrowsUnknownType(p) ==
    /\ passes[p].pc = "call"
    /\ Current(p).type \notin Executable(engine)
    /\ passes' = [passes EXCEPT ![p] = Caught(engine, passes[p])]
    /\ returned' = NoResult
    /\ UNCHANGED <<engine, online, stores, tasks, nextUuid, sync_events, nextId,
                   drains, delivered, failures>>

PassStep(p) ==
    \/ CallSucceeds(p)
    \/ TransientFailure(p)
    \/ ThrowsUnknownType(p)
    \/ MarkStep(p)
    \/ CountStep(p)

OfflineNext ==
    \/ GoOffline
    \/ OnlineEvent
    \/ PeriodicTick
    \/ \E p \in Slots : PassStep(p)
    \/ \E t \in TaskSlots, seed \in SeedArgs : LogDoneCheck(t, seed)
    \/ \E t \in TaskSlots : LogDoneGet(t)
    \/ \E t \in TaskSlots : LogDoneTx(t)
    \/ \E t \in TaskSlots : ~online /\ LogDoneQueueLog(t)
    \/ \E t \in TaskSlots : ~online /\ LogDoneQueueIntegration(t)

\* the timer keeps firing, a call in flight keeps running, and the remote
\* accepts a call it is given
OfflineSpec ==
    /\ FlagInit
    /\ [][OfflineNext]_vars
    /\ WF_vars(PeriodicTick)
    /\ WF_vars(OnlineEvent)
    /\ \A p \in Slots : WF_vars(PassStep(p))
    /\ \A p \in Slots : SF_vars(CallSucceeds(p))

(***************************************************************************)
(* The two ways a record gets into the queue, queueOperation and the       *)
(* queueSyncEvent of a domain action (logSkip), with the sync engine of    *)
(* the synced-flag build.                                                  *)
(***************************************************************************)
EnqueueNext ==
    \/ \E type \in OperationArgs, entity \in EntityIds :
         QueueOperation(type, entity)
    \/ \E t \in TaskSlots, seed \in SeedArgs : LogSkipCheck(t, seed)
    \/ \E t \in TaskSlots : LogSkipAdd(t)
    \/ \E t \in TaskSlots : LogSkipQueue(t)
    \/ GoOffline
    \/ \E p \in Slots : CallSucceeds(p)
    \/ \E p \in Slots : TransientFailure(p)
    \/ \E p \in Slots : MarkStep(p)
    \/ \E p \in Slots : CountStep(p)

EnqueueSpec == FlagInit /\ [][EnqueueNext]_vars

(***************************************************************************)
(* The listeners of setupSyncListeners alone: records are queued while the *)
(* device is offline, so every syncQueue() call is one a listener started. *)
(***************************************************************************)
ListenerNext ==
    \/ \E type \in OperationArgs, entity \in EntityIds :
         ~online /\ QueueOperation(type, entity)
    \/ GoOnline
    \/ GoOffline
    \/ PeriodicSync
    \/ \E p \in Slots : CallSucceeds(p)
    \/ \E p \in Slots : CallFails(p)
    \/ \E p \in Slots : MarkStep(p)
    \/ \E p \in Slots : DeleteStep(p)
    \/ \E p \in Slots : RetryStep(p)
    \/ \E p \in Slots : CountStep(p)

ListenerSpec == Init /\ [][ListenerNext]_vars

(***************************************************************************)
(* Onboarding: the seed step shows the proposals for the chosen energy and *)
(* feeling, the user picks one, completeOnboarding creates the first seed  *)
(* from its title.                                                         *)
(***************************************************************************)
\* SoilSeedStep: useMemo(() => proposeMicroSteps({ energy, feeling, horizon }))
ProposeMicroSteps(energy, feeling) ==
    /\ returned' = Options(energy, feeling)
    /\ UNCHANGED <<SyncState, stores, sync_events, nextId, tasks, nextUuid>>

\* setSelectedSeed(step.title), then completeOnboarding
SelectSeed(t, k) ==
    /\ returned.kind = "options"
    /\ k \in DOMAIN returned.options
    /\ CompleteOnboardingBegin(t, returned.options[k].title)

OnboardingNext ==
    \/ \E energy \in EnergyBudgets, feeling \in Feelings :
         ProposeMicroSteps(energy, feeling)
    \/ \E t \in TaskSlots, k \in 1..3 : SelectSeed(t, k)
    \/ \E t \in TaskSlots : CompleteOnboardingTx(t)
    \/ \E t \in TaskSlots : CompleteOnboardingQueueGoal(t)
    \/ \E t \in TaskSlots : CompleteOnboardingQueueSeed(t)
    \/ \E t \in TaskSlots : CompleteOnboardingQueueIntegration(t)

OnboardingSpec == Init /\ [][OnboardingNext]_vars

(***************************************************************************)
(* The seed state machine (stateMachine.ts): pure functions. Logs are the  *)
(* outcomes of the daily logs, most recent first.                          *)
(***************************************************************************)
SeedStates ==
    {"idle", "prompted", "in_progress", "completed", "triage", "adapt"}

SkipReasons == {"too_hard", "bad_timing", "low_energy", "forgot"}

IntegrationStatuses == {"not_yet", "almost", "yes"}

\* SeedEvent: reason and status are "none" for the events that carry none
Event(type) == [type |-> type, reason |-> "none", status |-> "none"]

SeedEvents ==
    [type : {"PROMPT", "START", "COMPLETE", "ADAPT_COMPLETE", "RESET"},
     reason : {"none"}, status : {"none"}]
    \cup [type : {"SKIP"}, reason : SkipReasons, status : {"none"}]
    \cup [type : {"INTEGRATION_CHECK"}, reason : {"none"},
          status : IntegrationStatuses]

\* logs.slice(0, 14)
RollingWindow == 14

Min(a, b) == IF a < b THEN a ELSE b

Max(a, b) == IF a > b THEN a ELSE b

\* Math.ceil(n / d) for n >= 0, d > 0; the double products minutes * 0.10 and
\* minutes * 0.7 round up to the same integers as the exact quotients for
\* every minutes the model uses
CeilDiv(n, d) == (n + d - 1) \div d

\* calculateRollingSuccess(logs) as the pair <<doneCount, recentLogs.length>>
calculateRollingSuccess(logs) ==
    LET recentLogs == SubSeq(logs, 1, Min(RollingWindow, Len(logs)))
    IN  <<Len(SelectSeq(recentLogs, LAMBDA o : o = "done")), Len(recentLogs)>>

\* calculateRecentStreak(logs): the leading run of 'done'
RECURSIVE calculateRecentStreak(_)
calculateRecentStreak(logs) ==
    IF logs = <<>> \/ Head(logs) # "done" THEN 0
    ELSE 1 + calculateRecentStreak(Tail(logs))

\* a step-up decision on the streak alone
shouldStepUpOnStreak(context) == calculateRecentStreak(context.logs) >= 2

\* rollingSuccess >= 0.7 && recentStreak >= 2; no logs is a success of 0
shouldStepUp(context) ==
    LET rollingSuccess == calculateRollingSuccess(context.logs)
    IN  /\ rollingSuccess[2] > 0
        /\ 10 * rollingSuccess[1] >= 7 * rollingSuccess[2]
        /\ calculateRecentStreak(context.logs) >= 2

Act(type) == [type |-> type]

\* an adaptation that ignores the reason
determineAdaptationHoldsSteady(reason, context) == Act("hold_steady")

\* determineAdaptation(reason, context)
determineAdaptation(reason, context) ==
    CASE reason = "too_hard" ->
           [type |-> "shrink",
            seed |-> [minutes |-> Max(1, CeilDiv(7 * context.seed.minutes, 10)),
                      step_level |-> Max(0, context.seed.step_level - 1)]]
      [] reason = "bad_timing" -> Act("adjust_timing")
      [] reason = "low_energy" -> Act("add_recovery")
      [] reason = "forgot" -> Act("add_cue")
      [] OTHER -> Act("hold_steady")

Outcome(nextState, actions) == [nextState |-> nextState, actions |-> actions]

\* a machine whose fall-through returns to idle instead of staying
transitionFallsToIdle(currentState, event, context) ==
    IF currentState = "idle" /\ event.type = "PROMPT"
    THEN Outcome("prompted", <<>>)
    ELSE Outcome("idle", <<>>)

\* transition(currentState, event, context)
transition(currentState, event, context) ==
    LET completed ==
            Outcome("completed",
                    IF shouldStepUp(context)
                    THEN <<Act("step_up")>> ELSE <<Act("hold_steady")>>)
    IN  CASE currentState = "idle" /\ event.type = "PROMPT" ->
               Outcome("prompted", <<>>)
          [] currentState = "prompted" /\ event.type = "START" ->
               Outcome("in_progress", <<>>)
          [] currentState = "prompted" /\ event.type = "COMPLETE" -> completed
          [] currentState = "prompted" /\ event.type = "SKIP" ->
               Outcome("triage", <<>>)
          [] currentState = "in_progress" /\ event.type = "COMPLETE" -> completed
          [] currentState = "completed" /\ event.type = "INTEGRATION_CHECK" ->
               Outcome("idle",
                       IF event.status = "yes"
                       THEN <<Act("promote_baseline")>> ELSE <<>>)
          [] currentState = "completed" /\ event.type = "RESET" ->
               Outcome("idle", <<>>)
          [] currentState = "triage" /\ event.type = "SKIP" ->
               Outcome("adapt", <<determineAdaptation(event.reason, context)>>)
          [] currentState = "adapt" /\ event.type = "ADAPT_COMPLETE" ->
               Outcome("idle", <<>>)
          [] OTHER -> Outcome(currentState, <<>>)

\* applyStepUp(seed)
applyStepUp(seed) ==
    LET increase == CeilDiv(seed.minutes, 10)
    IN  [minutes |-> seed.minutes + Max(1, increase),
         step_level |-> seed.step_level + 1]

\* the inputs: `done` times 'done', then `skipped` times 'skipped', then 'done'
RECURSIVE Repeat(_, _)
Repeat(outcome, n) ==
    IF n = 0 THEN <<>> ELSE <<outcome>> \o Repeat(outcome, n - 1)

Logs(done, skipped, older) ==
    Repeat("done", done) \o Repeat("skipped", skipped) \o Repeat("done", older)

\* the seed of the transitions whose outcome does not depend on the seed: a
\* first seed as completeOnboarding builds it
FirstSeed == [minutes |-> parseMinutesFromTitle(TitleFirstStep), step_level |-> 0]

SeedInputs ==
    [minutes : 1..MaxMinutes, step_level : 0..MaxStepLevel]

Context(seed, logs) == [seed |-> seed, logs |-> logs]

\* a caller applies transition; a behaviour is one application
Transition(currentState, event, context) ==
    /\ returned = NoResult
    /\ returned' = [kind |-> "transition", currentState |-> currentState,
                    event |-> event, context |-> context,
                    result |-> transition(currentState, event, context)]
    /\ UNCHANGED <<SyncState, stores, sync_events, nextId, tasks, nextUuid>>

\* a caller applies applyStepUp; a behaviour is one application
ApplyStepUp(seed) ==
    /\ returned = NoResult
    /\ returned' = [kind |-> "step_up", seed |-> seed,
                    result |-> applyStepUp(seed)]
    /\ UNCHANGED <<SyncState, stores, sync_events, nextId, tasks, nextUuid>>

MachineNext ==
    \/ /\ returned = NoResult
       /\ \E currentState \in SeedStates, done \in 0..MaxLogs,
             skipped \in 0..MaxLogs, older \in 0..MaxLogs :
            /\ done + skipped + older <= MaxLogs
            /\ Transition(currentState, Event("COMPLETE"),
                          Context(FirstSeed, Logs(done, skipped, older)))
    \/ /\ returned = NoResult
       /\ \E currentState \in SeedStates, event \in SeedEvents,
             seed \in SeedInputs :
            Transition(currentState, event, Context(seed, <<>>))
    \/ /\ returned = NoResult
       /\ \E seed \in SeedInputs : ApplyStepUp(seed)

MachineSpec == Init /\ [][MachineNext]_vars

(***************************************************************************)
(* getPendingSyncEvents (dexie.ts): a query on the `synced` index of       *)
(* sync_events, sorted by created_at.                                      *)
(***************************************************************************)
\* a row that has no entry in an index
NotIndexed == 0 - 1

\* the key of a row in the index `synced`: IndexedDB indexes a row only when
\* the property is a valid key (number, string, Date, binary, array); every
\* writer stores a boolean, which is none, so the row has no entry
SyncedKey(row) == IF row.synced \in BOOLEAN THEN NotIndexed ELSE row.synced

\* .where('synced').equals(key): the rows whose index entry is the key, in
\* primary-key order
WhereSyncedEquals(table, key) ==
    SelectSeq(table, LAMBDA row : SyncedKey(row) = key)

\* Date values the wall clock can hand to created_at
Stamps == 1..2

\* rows with row inserted after the last element whose created_at is not larger
RECURSIVE Insert(_, _, _)
Insert(rows, row, created_at) ==
    IF rows = <<>> THEN <<row>>
    ELSE IF created_at[rows[Len(rows)].id] <= created_at[row.id]
         THEN Append(rows, row)
         ELSE Append(Insert(SubSeq(rows, 1, Len(rows) - 1), row, created_at),
                     rows[Len(rows)])

\* .sortBy('created_at'): a stable sort of the collection on the property
RECURSIVE SortBy(_, _)
SortBy(rows, created_at) ==
    IF rows = <<>> THEN <<>>
    ELSE Insert(SortBy(SubSeq(rows, 1, Len(rows) - 1), created_at),
                rows[Len(rows)], created_at)

\* getPendingSyncEvents()
getPendingSyncEvents(table, created_at) ==
    SortBy(WhereSyncedEquals(table, 0), created_at)

Pending(events) == [kind |-> "pending", events |-> events]

\* a caller reads the pending events; created_at is what new Date() gave each
\* record when it was queued
GetPendingSyncEvents(created_at) ==
    /\ returned' = Pending(getPendingSyncEvents(sync_events, created_at))
    /\ UNCHANGED <<SyncState, stores, sync_events, nextId, tasks, nextUuid>>

PendingNext ==
    \/ EnqueueNext
    \/ \E created_at \in [RecordIds -> Stamps] : GetPendingSyncEvents(created_at)

PendingSpec == FlagInit /\ [][PendingNext]_vars

(***************************************************************************)
(* Helpers of the properties.                                              *)
(***************************************************************************)
\* the record ids handed out so far
Enqueued == 1..(nextId - 1)

InQueue(id) == id \in Ids(sync_events)

\* in the queue and not marked synced
Unconsumed(id) == InQueue(id) /\ ~Row(sync_events, id).synced

Running(p) == passes[p].pc # "idle"

Quiescent == \A t \in TaskSlots : tasks[t].pc = "idle"

\* the sync events of the table with one of the given types
EventsOf(types) == {sync_events[k] : k \in {j \in DOMAIN sync_events : sync_events[j].type \in types}}

\* the sync engine and its triggers alone
SyncSpec == Init /\ [][SyncNext]_vars

\* the domain actions and the reset alone
DomainSpec == Init /\ [][DomainNext]_vars

\* the sync engine with the reset running beside it
ResetNext ==
    \/ SyncNext
    \/ \E commits \in BOOLEAN : ClearAllLocalData(commits)
    \/ \E commits \in BOOLEAN : HandleClearData(commits)

ResetSpec == Init /\ [][ResetNext]_vars

(***************************************************************************)
(* C1: for logDone, logSkip, updateIntegrationStatus and completeOnboarding *)
(* the entity write and the append of its sync event are atomic: whenever  *)
(* no domain action is in flight (also after a crash or a storage failure  *)
(* inside one), every daily log, goal, seed and integration state in the   *)
(* local store has its sync event in the queue, and every such sync event  *)
(* has its entity in the store.                                            *)
(***************************************************************************)
C1_Pairs ==
    /\ \A l \in daily_logs :
         \E e \in EventsOf({"log_done", "log_skip"}) : e.entity_id = l.id
    /\ \A e \in EventsOf({"log_done", "log_skip"}) :
         \E l \in daily_logs : l.id = e.entity_id
    /\ \A g \in goals : \E e \in EventsOf({"create_goal"}) : e.entity_id = g.id
    /\ \A e \in EventsOf({"create_goal"}) : \E g \in goals : g.id = e.entity_id
    /\ \A s \in seeds : \E e \in EventsOf({"create_seed"}) : e.entity_id = s.id
    /\ \A e \in EventsOf({"create_seed"}) : \E s \in seeds : s.id = e.entity_id
    /\ \A s \in integration_states :
         \E e \in EventsOf({"update_integration"}) : e.entity_id = s.seed_id
    /\ \A e \in EventsOf({"update_integration"}) :
         \E s \in integration_states : s.seed_id = e.entity_id

C1_EntityAndEventAtomic == Quiescent => C1_Pairs

(***************************************************************************)
(* C2: a later record of an entity is never delivered while an earlier     *)
(* record of the same entity is still unconsumed: a call that has just     *)
(* delivered its record (it is about to mark or delete it) finds no        *)
(* unconsumed record of the same entity with a smaller id in the queue.    *)
(***************************************************************************)
C2_PerEntityOrder ==
    \A p \in Slots :
        passes[p].pc \in {"mark", "delete"} /\ Current(p).entity_id # NoEntity =>
            ~ \E k \in DOMAIN sync_events :
                /\ sync_events[k].entity_id = Current(p).entity_id
                /\ sync_events[k].id < Current(p).id
                /\ ~sync_events[k].synced

(***************************************************************************)
(* C3: no record's remote call succeeds twice, in any interleaving of the  *)
(* triggers.                                                               *)
(***************************************************************************)
C3_NoDuplicateDelivery == \A id \in RecordIds : delivered[id] <= 1

(***************************************************************************)
(* C4: at most one syncQueue() call is in progress at any time.            *)
(***************************************************************************)
C4_SingleDrain == Cardinality({p \in Slots : Running(p)}) <= 1

(***************************************************************************)
(* C5 as stated: a record is marked consumed (synced = true, or removed    *)
(* from the queue by a drain) only after its own remote call has           *)
(* succeeded, so after a tear-down in the middle of a drain every record   *)
(* whose remote call has not succeeded is still in the queue, unconsumed.  *)
(***************************************************************************)
C5_ConsumedOnlyAfterSuccess ==
    \A id \in Enqueued : delivered[id] = 0 => Unconsumed(id)

(***************************************************************************)
(* C5 as amended: a record is consumed only after its own remote call has  *)
(* succeeded or, in the retry build, after its remote call has failed      *)
(* MAX_RETRIES times; every other record is still in the queue and         *)
(* unconsumed, also after a tear-down in the middle of a drain.            *)
(***************************************************************************)
C5_ConsumedAfterSuccessOrMaxRetries ==
    \A id \in Enqueued :
        \/ Unconsumed(id)
        \/ delivered[id] > 0
        \/ engine = EngineRetry /\ failures[id] >= MAX_RETRIES

\* no call is in flight (a drain was torn down or has returned); one record was
\* delivered and is consumed, another failed and is still queued, unconsumed
C5_Witness ==
    /\ \A p \in Slots : ~Running(p)
    /\ \E id \in Enqueued : ~Unconsumed(id) /\ delivered[id] > 0
    /\ \E id \in Enqueued : Unconsumed(id) /\ delivered[id] = 0 /\ failures[id] > 0

(***************************************************************************)
(* C6: a record whose remote call fails on every attempt is marked         *)
(* consumed after a bounded number of drain passes that reach it: it is    *)
(* not still unconsumed in the queue after more than MAX_RETRIES failed    *)
(* attempts.                                                               *)
(***************************************************************************)
C6_PoisonConsumed ==
    \A id \in Enqueued :
        Unconsumed(id) /\ delivered[id] = 0 => failures[id] <= MAX_RETRIES

(***************************************************************************)
(* C7: a record whose remote call fails does not keep the pass from the    *)
(* other records: a pass that leaves its loop has run executeOperation for *)
(* every record of its snapshot that the loop does not skip as synced, and *)
(* the step after a successful call leaves that record consumed.           *)
(***************************************************************************)
C7_AllAttempted ==
    \A p \in Slots :
        passes[p].pc = "count" =>
            \A k \in DOMAIN passes[p].operations :
                \/ SkipsSynced(engine) /\ passes[p].operations[k].synced
                \/ passes[p].operations[k].id \in passes[p].attempted

C7_MarkedWhenSucceeded ==
    \A p \in Slots :
        /\ passes[p].pc \in {"mark", "delete"}
        /\ passes'[p].synced = passes[p].synced + 1
        => LET id == Current(p).id
           IN  \A k \in DOMAIN sync_events' :
                   sync_events'[k].id = id => sync_events'[k].synced

C7_PoisonIsolation == [](C7_AllAttempted) /\ [][C7_MarkedWhenSucceeded]_vars

\* a pass over two records of different entities has left its loop: the call
\* for the first record failed, the later record was delivered and is consumed
C7_Witness ==
    \E p \in Slots :
        /\ passes[p].pc = "count"
        /\ Len(passes[p].operations) = 2
        /\ passes[p].operations[1].entity_id # passes[p].operations[2].entity_id
        /\ passes[p].failed = 1
        /\ passes[p].synced = 1
        /\ failures[passes[p].operations[1].id] = 1
        /\ delivered[passes[p].operations[2].id] = 1
        /\ Unconsumed(passes[p].operations[1].id)
        /\ ~Unconsumed(passes[p].operations[2].id)

(***************************************************************************)
(* C8: a record whose remote call has failed in k consecutive passes (in   *)
(* particular k = 3) is still in the queue and unconsumed, and the pass in *)
(* which the call of the only record then succeeds returns synced = 1 and  *)
(* pending = 0.                                                            *)
(***************************************************************************)
C8_TransientRetry ==
    /\ \A id \in Enqueued : delivered[id] = 0 => Unconsumed(id)
    /\ /\ returned.kind = "summary"
       /\ nextId = 2
       /\ failures[1] = MAX_RETRIES
       /\ delivered[1] = 1
       /\ returned.synced = 1
       => returned.pending = 0

(***************************************************************************)
(* C9: marking a record consumed twice leaves the queue as marking it once *)
(* does, and marking a record that is already consumed changes nothing.    *)
(***************************************************************************)
C9_MarkIdempotent ==
    \A id \in RecordIds :
        /\ MarkSynced(MarkSynced(sync_events, id), id) = MarkSynced(sync_events, id)
        /\ InQueue(id) /\ Row(sync_events, id).synced =>
               MarkSynced(sync_events, id) = sync_events

\* a call is about to mark a record that another call has already marked
C9_Witness ==
    \E p \in Slots :
        /\ passes[p].pc = "mark"
        /\ InQueue(Current(p).id)
        /\ Row(sync_events, Current(p).id).synced

(***************************************************************************)
(* C10: after the reset (clearAllLocalData, or the clear-data dialog)      *)
(* completes successfully every local store is empty: goals, seeds, daily  *)
(* logs, integration states, sync events and preferences; a reset that     *)
(* fails has changed no store.                                             *)
(***************************************************************************)
C10_ResetEmptiesEveryStore ==
    /\ [](returned.kind = "cleared" => EmptyStores)
    /\ [][/\ returned'.kind = "error"
          /\ returned'.message \in {"clearAllLocalData", "Failed to clear data"}
          => stores' = stores /\ sync_events' = sync_events]_vars

(***************************************************************************)
(* C11: when a reset commits while a syncQueue() call is in flight, the    *)
(* queue is empty after the reset and the call in flight writes none of    *)
(* the records of its snapshot back into the queue, whatever the outcome   *)
(* of its remote calls: until that call has finished, no record of its     *)
(* snapshot is in the queue again.                                         *)
(***************************************************************************)
C11_ResetDuringDrain ==
    \A p \in Slots :
        Running(p) /\ passes[p].wiped =>
            \A k \in DOMAIN passes[p].operations :
                ~InQueue(passes[p].operations[k].id)

(***************************************************************************)
(* C12: every sync event a domain action queued while the device was       *)
(* offline is eventually marked synced once the device is back online and  *)
(* stays online, when the remote accepts each call after finitely many     *)
(* failures and the online and periodic triggers keep firing.              *)
(***************************************************************************)
C12_OfflineEventsEventuallySynced ==
    <>[]online =>
        \A id \in RecordIds :
            InQueue(id) ~> (InQueue(id) /\ Row(sync_events, id).synced)

(***************************************************************************)
(* C13: every enqueue performed while the device is online is immediately  *)
(* followed by a drain attempt: the step that adds a record to the queue   *)
(* while online starts a syncQueue() call; and a failing remote call of a  *)
(* drain leaves every queued record in the queue.                          *)
(***************************************************************************)
C13_EnqueueTriggersDrain ==
    [][/\ nextId' = nextId + 1 /\ online
          => drains' = drains + 1 /\ nextId \in Ids(sync_events')
       /\ failures' # failures => sync_events' = sync_events]_vars

(***************************************************************************)
(* C14: every offline-to-online transition starts a syncQueue() call, and  *)
(* so does every periodic tick that occurs while online; a periodic tick   *)
(* while offline starts none (no step taken while the device is and stays  *)
(* offline starts one); and while the device stays online the online       *)
(* listener does not fire again: a call that starts then was started by a  *)
(* periodic tick.                                                          *)
(***************************************************************************)
C14_Triggers ==
    [][/\ ~online /\ online' => drains' = drains + 1
       /\ PeriodicSync /\ online => drains' = drains + 1
       /\ PeriodicSync /\ ~online => drains' = drains /\ passes' = passes
       /\ ~online /\ ~online' =>
              /\ drains' = drains
              /\ \A p \in Slots : ~Running(p) => passes'[p] = passes[p]
       /\ online /\ online' /\ drains' # drains => PeriodicSync]_vars

\* the first syncQueue() call of the behaviour is running over a record that
\* was queued offline: the online listener started it
C14_Witness ==
    /\ online
    /\ drains = 1
    /\ \E p \in Slots : Running(p) /\ Len(passes[p].operations) > 0

(***************************************************************************)
(* C15: syncQueue never rejects because a remote call failed: the step in  *)
(* which a remote call fails rejects nothing and leaves the call running,  *)
(* and a call ends only by returning a summary, with its counts of synced  *)
(* and failed records, after it has been through its whole snapshot        *)
(* (every record of it was attempted, or skipped as already synced).       *)
(***************************************************************************)
C15_NeverRejects ==
    [][/\ failures' # failures =>
              /\ returned'.kind # "error"
              /\ \A p \in Slots : Running(p) => passes'[p].pc # "idle"
       /\ \A p \in Slots :
              Running(p) /\ passes'[p].pc = "idle" =>
                  /\ returned' = Summary(passes[p].synced, passes[p].failed,
                                         Len(sync_events))
                  /\ passes[p].i > Len(passes[p].operations)
                  /\ \A k \in DOMAIN passes[p].operations :
                         \/ passes[p].operations[k].id \in passes[p].attempted
                         \/ SkipsSynced(engine) /\ passes[p].operations[k].synced
      ]_vars

\* a call over two records has just returned its summary: one remote call
\* failed, the other succeeded
C15_Witness ==
    /\ returned.kind = "summary"
    /\ returned.synced = 1
    /\ \E id \in Enqueued : failures[id] > 0 /\ delivered[id] = 0
    /\ \E id \in Enqueued : failures[id] = 0 /\ delivered[id] = 1

(***************************************************************************)
(* C17: on a COMPLETE event that transition accepts (in the states         *)
(* prompted and in_progress) a step_up action is emitted only if at least  *)
(* 70% of the seed's most recent 14 logs are done, and whenever fewer than *)
(* 70% of them are done the single action emitted is hold_steady; in no    *)
(* state does a COMPLETE event with a rate below 70% emit a step_up.       *)
(***************************************************************************)
RecentDone(logs) ==
    Cardinality({k \in DOMAIN logs : k <= RollingWindow /\ logs[k] = "done"})

RecentCount(logs) == Cardinality({k \in DOMAIN logs : k <= RollingWindow})

RateAtLeast70(logs) ==
    RecentCount(logs) > 0 /\ 100 * RecentDone(logs) >= 70 * RecentCount(logs)

C18_StepUpTenToFifteenPercent ==
    returned.kind = "step_up" =>
        LET increase == returned.result.minutes - returned.seed.minutes
        IN  /\ 100 * increase >= 10 * returned.seed.minutes
            /\ 100 * increase <= 15 * returned.seed.minutes

(***************************************************************************)
(* C16: for every energy budget and every feeling 1..5, each micro-step    *)
(* proposeMicroSteps proposes is at most 2 minutes long, and so is the     *)
(* first seed completeOnboarding creates from a proposed option.           *)
(***************************************************************************)
C16_FirstStepAtMostTwoMinutes ==
    /\ returned.kind = "options" =>
           \A k \in DOMAIN returned.options :
               parseMinutesFromTitle(returned.options[k].title) <= 2
    /\ \A s \in seeds : s.minutes <= 2

(***************************************************************************)
(* C19: within one pass, after the remote call for a record of an entity   *)
(* has failed, no later record of the same entity in the pass's snapshot   *)
(* is attempted in that pass: a pass never awaits the remote call of a     *)
(* record while an earlier record of the same entity, attempted in this    *)
(* pass, is still unconsumed (its call failed).                            *)
(***************************************************************************)
C19_SameEntitySkippedAfterFailure ==
    \A p \in Slots :
        passes[p].pc = "call" /\ Current(p).entity_id # NoEntity =>
            ~ \E k \in 1..(passes[p].i - 1) :
                /\ passes[p].operations[k].entity_id = Current(p).entity_id
                /\ passes[p].operations[k].id \in passes[p].attempted
                /\ Unconsumed(passes[p].operations[k].id)

(***************************************************************************)
(* C20: a pass processes only the records that were in the queue when it   *)
(* started: its snapshot does not change while it runs, it attempts only   *)
(* records of its snapshot, and a record is consumed only in the presence  *)
(* of a pass whose snapshot holds it, so a record enqueued while a pass is *)
(* suspended on a remote call stays unconsumed until a later pass.         *)
(***************************************************************************)
SnapshotIds(p) == Ids(passes[p].operations)

C20_SnapshotOnly ==
    /\ [](\A p \in Slots : passes[p].attempted \subseteq SnapshotIds(p))
    /\ [][/\ \A p \in Slots :
                Running(p) /\ passes'[p].pc # "idle" =>
                    Ids(passes'[p].operations) = SnapshotIds(p)
          /\ \A id \in Enqueued :
                Unconsumed(id) /\ ~Unconsumed(id)' =>
                    \E p \in Slots : Running(p) /\ id \in SnapshotIds(p)]_vars

\* a pass has left its loop having attempted the one record of its snapshot,
\* and the record enqueued while it was suspended is still unconsumed
C20_Witness ==
    \E p \in Slots :
        /\ passes[p].pc = "count"
        /\ SnapshotIds(p) = {1}
        /\ passes[p].attempted = {1}
        /\ Unconsumed(2)
        /\ delivered[2] = 0 /\ failures[2] = 0

(***************************************************************************)
(* C21: a pass that reaches an unconsumed record of any of the nine        *)
(* SyncEvent types issues exactly one remote call for it: the step in      *)
(* which a pass has attempted a record is a remote call for that record,   *)
(* received by the remote or failed, and it is one call.                   *)
(***************************************************************************)
RemoteCalls(id) == delivered[id] + failures[id]

C21_OneRemoteCallPerType ==
    [][\A p \in Slots :
          \A id \in passes'[p].attempted \ passes[p].attempted :
              /\ Row(passes[p].operations, id).type \in SyncEventTypes
              /\ RemoteCalls(id)' = RemoteCalls(id) + 1]_vars

(***************************************************************************)
(* C22: the summary a pass returns counts what the pass did: synced and    *)
(* failed together account for every record the pass attempted (each       *)
(* attempted record was marked consumed or its remote call failed), and    *)
(* pending is the number of records still unconsumed in the queue when the *)
(* pass returns.                                                           *)
(***************************************************************************)
StillPending(table) == Cardinality({k \in DOMAIN table : ~table[k].synced})

C22_SummaryCounts ==
    [][returned'.kind = "summary" =>
          /\ returned'.pending = StillPending(sync_events')
          /\ \A p \in Slots :
                 passes[p].pc = "count" /\ passes'[p].pc = "idle" =>
                     returned'.synced + returned'.failed =
                         Cardinality(passes[p].attempted)]_vars

(***************************************************************************)
(* C23: a pass never removes a record from the queue: no step of the sync  *)
(* engine takes a record out of the queue, so a delivered record stays in  *)
(* it with its synced flag set, and an unconsumed record stays in it.      *)
(***************************************************************************)
C23_DrainNeverRemoves ==
    [][\A id \in Ids(sync_events) :
          /\ id \in Ids(sync_events')
          /\ Row(sync_events, id).synced => Row(sync_events', id).synced]_vars

(***************************************************************************)
(* C24: getPendingSyncEvents returns exactly the records whose synced flag *)
(* is false, in ascending order of their id (the order in which they were  *)
(* enqueued, which is the order of the table).                             *)
(***************************************************************************)
C24_PendingInIdOrder ==
    returned.kind = "pending" =>
        returned.events = SelectSeq(sync_events, LAMBDA row : ~row.synced)

(***************************************************************************)
(* C25: a SKIP event on a prompted seed moves it to triage with no action, *)
(* and a SKIP event in triage moves it to adapt with exactly one action,   *)
(* determined by the reason: too_hard gives shrink, bad_timing gives       *)
(* adjust_timing, low_energy gives add_recovery and forgot gives add_cue.  *)
(***************************************************************************)
AdaptationOf(reason) ==
    CASE reason = "too_hard" -> "shrink"
      [] reason = "bad_timing" -> "adjust_timing"
      [] reason = "low_energy" -> "add_recovery"
      [] reason = "forgot" -> "add_cue"

C25_SkipAdapts ==
    returned.kind = "transition" /\ returned.event.type = "SKIP" =>
        /\ returned.currentState = "prompted" =>
               returned.result = Outcome("triage", <<>>)
        /\ returned.currentState = "triage" =>
               /\ returned.result.nextState = "adapt"
               /\ Len(returned.result.actions) = 1
               /\ returned.result.actions[1].type =
                      AdaptationOf(returned.event.reason)

\* a SKIP for low energy on a seed in triage: the seed is in adapt with the one
\* action add_recovery
C25_Witness ==
    /\ returned.kind = "transition"
    /\ returned.event.type = "SKIP"
    /\ returned.event.reason = "low_energy"
    /\ returned.currentState = "triage"
    /\ returned.result = Outcome("adapt", <<Act("add_recovery")>>)

(***************************************************************************)
(* C26: the local store holds at most one daily log per (seed_id, date)    *)
(* pair in every reachable state, for any interleaving of logDone and      *)
(* logSkip calls for the same seed on the same day (every log of a         *)
(* behaviour has the date of that day).                                    *)
(***************************************************************************)
C26_OneLogPerSeedAndDay ==
    \A l1 \in daily_logs, l2 \in daily_logs :
        l1.seed_id = l2.seed_id => l1 = l2

(***************************************************************************)
(* C27: when logDone or logSkip finds an existing log for the seed and     *)
(* today's date, it fails with 'Already logged for today' and leaves the   *)
(* daily logs, the integration states and the sync queue exactly as they   *)
(* were (and starts no further step of the action).                        *)
(***************************************************************************)
AlreadyLogged == Rejected("Already logged for today")

C27_AlreadyLoggedChangesNothing ==
    [][/\ \A t \in TaskSlots, seed \in SeedArgs :
              /\ LogDoneCheck(t, seed) \/ LogSkipCheck(t, seed)
              /\ \E l \in daily_logs : l.seed_id = seed
              => /\ returned' = AlreadyLogged
                 /\ tasks' = tasks
       /\ returned' = AlreadyLogged =>
              /\ daily_logs' = daily_logs
              /\ integration_states' = integration_states
              /\ sync_events' = sync_events]_vars

\* a call for a seed whose log of today is in the store, with its sync event in
\* the queue, was just rejected
C27_Witness ==
    /\ returned = AlreadyLogged
    /\ \E l \in daily_logs :
           \E e \in EventsOf({"log_done", "log_skip"}) : e.entity_id = l.id

(***************************************************************************)
(* C28: the only state changes transition makes are idle to prompted       *)
(* (PROMPT), prompted to in_progress (START), prompted or in_progress to   *)
(* completed (COMPLETE), prompted to triage (SKIP), triage to adapt        *)
(* (SKIP), completed to idle (INTEGRATION_CHECK or RESET) and adapt to     *)
(* idle (ADAPT_COMPLETE); for every other pair of state and event it       *)
(* returns the current state with an empty action list.                    *)
(***************************************************************************)
StateChanges ==
    {<<"idle", "PROMPT", "prompted">>,
     <<"prompted", "START", "in_progress">>,
     <<"prompted", "COMPLETE", "completed">>,
     <<"in_progress", "COMPLETE", "completed">>,
     <<"prompted", "SKIP", "triage">>,
     <<"triage", "SKIP", "adapt">>,
     <<"completed", "INTEGRATION_CHECK", "idle">>,
     <<"completed", "RESET", "idle">>,
     <<"adapt", "ADAPT_COMPLETE", "idle">>}

C28_OnlyListedStateChanges ==
    returned.kind = "transition" =>
        LET listed == {c \in StateChanges :
                          /\ c[1] = returned.currentState
                          /\ c[2] = returned.event.type}
        IN  /\ \A c \in listed : returned.result.nextState = c[3]
            /\ listed = {} =>
                   returned.result = Outcome(returned.currentState, <<>>)

\* a COMPLETE on an idle seed whose logs would earn a step-up: the seed stays
\* idle and no action is emitted
C28_Witness ==
    /\ returned.kind = "transition"
    /\ returned.currentState = "idle"
    /\ returned.event.type = "COMPLETE"
    /\ shouldStepUp(returned.context)
    /\ returned.result = Outcome("idle", <<>>)

(***************************************************************************)
(* C29: once a sync event's synced flag is true it stays true in every     *)
(* later state, until the record is removed by a clear of the queue: no    *)
(* step of a drain or an enqueue resets it to false or takes the record    *)
(* out of the queue.                                                       *)
(***************************************************************************)
C29_SyncedStaysSynced ==
    [][\A id \in Ids(sync_events) :
          Row(sync_events, id).synced =>
              \/ id \in Ids(sync_events') /\ Row(sync_events', id).synced
              \/ sync_events' = <<>> /\ returned'.kind = "cleared"]_vars

\* a record is synced and a later pass, whose snapshot holds it as synced, has
\* gone through its loop: the record is still synced
C29_Witness ==
    \E p \in Slots :
        /\ passes[p].pc = "count"
        /\ \E k \in DOMAIN passes[p].operations :
               /\ passes[p].operations[k].synced
               /\ InQueue(passes[p].operations[k].id)
               /\ Row(sync_events, passes[p].operations[k].id).synced

(***************************************************************************)
(* C30: a pass changes only the sync queue: no step of a syncQueue() call  *)
(* (its start, a remote call that succeeds or fails, the marking of a      *)
(* record, its return) changes the goals, seeds, daily_logs,               *)
(* integration_states or preferences store, the sync_status of their       *)
(* entities included.                                                      *)
(***************************************************************************)
C30_DrainLeavesStores ==
    [][passes' # passes \/ returned'.kind = "summary" => stores' = stores]_vars

\* a pass has returned after delivering the log_done record of a daily log: the
\* log is in its store as logDone wrote it, its sync_status pending
C30_Witness ==
    /\ returned.kind = "summary"
    /\ returned.synced >= 1
    /\ \E l \in daily_logs :
           /\ l.sync_status = "pending"
           /\ \E e \in EventsOf({"log_done"}) :
                  e.entity_id = l.id /\ e.synced /\ delivered[e.id] = 1

====
